---------------------------- MODULE Spec2Model ----------------------------
(***************************************************************************)
(* Substitution-cipher decryption by simulated annealing over character    *)
(* permutations, scored by a Laplace-smoothed bigram language model.       *)
(*                                                                         *)
(*   language_model.py       LanguageModel (counts, smoothed log-probs)    *)
(*   permutation.py          Permutation (swap neighbour, translate,       *)
(*                           energy)                                       *)
(*   simulated_annealing.py  SimulatedAnnealing.run (Metropolis loop)      *)
(***************************************************************************)
EXTENDS Integers, Sequences, FiniteSets, TLC

(***************************************************************************)
(* Bounds of the model.                                                    *)
(***************************************************************************)
\* Size of the alphabet that stands for the 38 KNOWN_CHARACTERS.
NChars == 3
\* Longest training corpus drawn in the search specifications.
MaxCorpus == 2
\* Longest encrypted message.
MaxMsg == 2
\* Longest training corpus drawn in the language-model specification.
MaxCorpusLM == 4
\* Permutation() calls made by the environment besides main's own.
MaxExtra == 1
\* The values random() is drawn from are k / RDen, k in 0..RDen-1.
RDen == 2

(***************************************************************************)
(* Arbitrary-precision naturals: little-endian sequences of Base-limbs.    *)
(* They carry the 53-bit significands of Python's float and the exact      *)
(* products the cooling schedule is compared with.                         *)
(***************************************************************************)
Base == 2 ^ 15

RECURSIVE BigNorm(_)
BigNorm(a) ==
    IF a = <<>> THEN a
    ELSE IF a[Len(a)] = 0 THEN BigNorm(SubSeq(a, 1, Len(a) - 1)) ELSE a

RECURSIVE BigAddC(_, _, _)
BigAddC(a, b, c) ==
    IF a = <<>> /\ b = <<>> THEN (IF c = 0 THEN <<>> ELSE <<c>>)
    ELSE LET x == IF a = <<>> THEN 0 ELSE Head(a)
             y == IF b = <<>> THEN 0 ELSE Head(b)
             s == x + y + c
         IN  <<s % Base>> \o BigAddC(IF a = <<>> THEN a ELSE Tail(a),
                                     IF b = <<>> THEN b ELSE Tail(b),
                                     s \div Base)

BigAdd(a, b) == BigNorm(BigAddC(a, b, 0))

RECURSIVE BigMulSmallC(_, _, _)
BigMulSmallC(a, k, c) ==
    IF a = <<>> THEN (IF c = 0 THEN <<>> ELSE <<c>>)
    ELSE LET s == Head(a) * k + c
         IN  <<s % Base>> \o BigMulSmallC(Tail(a), k, s \div Base)

RECURSIVE BigMulRaw(_, _)
BigMulRaw(a, b) ==
    IF b = <<>> THEN <<>>
    ELSE BigAddC(BigMulSmallC(a, Head(b), 0), <<0>> \o BigMulRaw(a, Tail(b)), 0)

BigMul(a, b) == BigNorm(BigMulRaw(a, b))

\* -1, 0, 1 as a < b, a = b, a > b (a, b normalised).
RECURSIVE BigCmpFrom(_, _, _)
BigCmpFrom(a, b, i) ==
    IF i = 0 THEN 0
    ELSE IF a[i] < b[i] THEN -1
    ELSE IF a[i] > b[i] THEN 1
    ELSE BigCmpFrom(a, b, i - 1)

BigCmp(a, b) ==
    IF Len(a) < Len(b) THEN -1
    ELSE IF Len(a) > Len(b) THEN 1
    ELSE BigCmpFrom(a, b, Len(a))

RECURSIVE SmallBitLen(_)
SmallBitLen(x) == IF x = 0 THEN 0 ELSE 1 + SmallBitLen(x \div 2)

\* Bits per limb.
LimbBits == SmallBitLen(Base) - 1

BitLen(a) ==
    IF a = <<>> THEN 0 ELSE LimbBits * (Len(a) - 1) + SmallBitLen(a[Len(a)])

BitAt(a, i) ==
    LET q == i \div LimbBits
    IN  IF q + 1 > Len(a) THEN 0 ELSE (a[q + 1] \div (2 ^ (i % LimbBits))) % 2

\* floor(a / 2^s)
BigShr(a, s) ==
    LET q == s \div LimbBits
        r == s % LimbBits
        n == Len(a) - q
    IN  IF n <= 0 THEN <<>>
        ELSE BigNorm([i \in 1..n |->
                 (a[q + i] \div (2 ^ r))
                 + (IF q + i + 1 <= Len(a)
                    THEN (a[q + i + 1] % (2 ^ r)) * (2 ^ (LimbBits - r))
                    ELSE 0)])

\* a * 2^s
BigShl(a, s) ==
    LET q == s \div LimbBits
        r == s % LimbBits
    IN  IF a = <<>> THEN a
        ELSE [i \in 1..q |-> 0] \o BigNorm(BigMulSmallC(a, 2 ^ r, 0))

\* Whether a has a one among its bits 0 .. s-1.
LowBitsNonZero(a, s) ==
    LET q == s \div LimbBits
        r == s % LimbBits
    IN  \/ \E i \in 1..Len(a) : i <= q /\ a[i] # 0
        \/ q + 1 <= Len(a) /\ a[q + 1] % (2 ^ r) # 0

(***************************************************************************)
(* Python floats (IEEE-754 binary64) that are positive and normal: the     *)
(* value m * 2^e with a significand m of exactly Precision bits.  The      *)
(* temperature, the threshold and the cooling rate are such floats.        *)
(* Subnormal results and overflow are outside the model.                   *)
(***************************************************************************)
Precision == 53

\* Round-to-nearest, ties-to-even of the exact value d.m * 2^d.e (d.m # 0).
RoundToFloat(d) ==
    LET L == BitLen(d.m)
    IN  IF L <= Precision
        THEN [m |-> BigShl(d.m, Precision - L), e |-> d.e - (Precision - L)]
        ELSE LET s    == L - Precision
                 q    == BigShr(d.m, s)
                 half == BitAt(d.m, s - 1) = 1
                 up   == half /\ (LowBitsNonZero(d.m, s - 1) \/ BitAt(q, 0) = 1)
                 q2   == IF up THEN BigAdd(q, <<1>>) ELSE q
             IN  IF BitLen(q2) > Precision
                 THEN [m |-> BigShr(q2, 1), e |-> d.e + s + 1]
                 ELSE [m |-> q2, e |-> d.e + s]

\* Exact product of two dyadic values.
DyMul(a, b) == [m |-> BigMul(a.m, b.m), e |-> a.e + b.e]

\* Exact comparison of two positive dyadic values: -1, 0, 1.
DyCmp(a, b) ==
    LET e0 == IF a.e < b.e THEN a.e ELSE b.e
    IN  BigCmp(BigShl(a.m, a.e - e0), BigShl(b.m, b.e - e0))

\* a * b on floats.
FloatMul(a, b) == RoundToFloat(DyMul(a, b))

\* a > b on floats.
FloatGt(a, b) == a.e > b.e \/ (a.e = b.e /\ BigCmp(a.m, b.m) > 0)

\* The float with significand limbs l0 (lowest) .. l3 and exponent e.
Float(l3, l2, l1, l0, e) == [m |-> <<l0, l1, l2, l3>>, e |-> e]

(***************************************************************************)
(* Characters, strings and Python dicts.  A dict is a function whose       *)
(* domain is the set of keys present.                                      *)
(***************************************************************************)
KNOWN_CHARACTERS == 1..NChars

\* A character that is not one of KNOWN_CHARACTERS (the message file is
\* read unfiltered, so the message may hold such characters).
OutChar == NChars + 1

Seqs(S, n) == UNION {[1..k -> S] : k \in 0..n}

Chars(s) == {s[i] : i \in 1..Len(s)}

EmptyDict == <<>>

\* d.get(k, default)
DictGet(d, k, default) == IF k \in DOMAIN d THEN d[k] ELSE default

\* curr_cnt = d.setdefault(k, 0); d[k] = curr_cnt + 1
Incr(d, k) ==
    IF k \in DOMAIN d THEN [d EXCEPT ![k] = @ + 1] ELSE d @@ (k :> 1)

(***************************************************************************)
(* math.log2 of a positive rational: the record [num, den] stands for      *)
(* log2(num / den).  Negation, subtraction and the sign are exact.         *)
(***************************************************************************)
Log2(n, d) == [num |-> n, den |-> d]

LogNeg(x) == [num |-> x.den, den |-> x.num]

LogSub(x, y) == [num |-> x.num * y.den, den |-> x.den * y.num]

LogSign(x) == IF x.num < x.den THEN -1 ELSE IF x.num = x.den THEN 0 ELSE 1

(***************************************************************************)
(* LanguageModel                                                           *)
(***************************************************************************)
RECURSIVE UnigramLoop(_, _, _)
UnigramLoop(corpus, i, unigram_cnt) ==
    IF i > Len(corpus) THEN unigram_cnt
    ELSE UnigramLoop(corpus, i + 1, Incr(unigram_cnt, corpus[i]))

GatherUnigramRawCount(corpus) == UnigramLoop(corpus, 1, EmptyDict)

\* BigramKey with the earlier character first.
BigramKeyForward(corpus, i) == <<corpus[i - 1], corpus[i]>>

\* The key of the pair at position i (i >= 2): (corpus[i], corpus[i - 1]).
BigramKey(corpus, i) == <<corpus[i], corpus[i - 1]>>

RECURSIVE BigramLoop(_, _, _)
BigramLoop(corpus, i, bigram_cnt) ==
    IF i > Len(corpus) THEN bigram_cnt
    ELSE BigramLoop(corpus, i + 1, Incr(bigram_cnt, BigramKey(corpus, i)))

GatherBigramRawCount(corpus) == BigramLoop(corpus, 2, EmptyDict)

\* LogProbOfW without the add-one smoothing.
LogProbOfWUnsmoothed(m, w) ==
    Log2(DictGet(m.unigram_cnt, w, 0), m.corpus_size)

\* _log_prob_of_w: log2((c_w + 1) / (n + v))
LogProbOfW(m, w) ==
    LET c_w == DictGet(m.unigram_cnt, w, 0)
        n   == m.corpus_size
        v   == m.vocabulary_size
    IN  Log2(c_w + 1, n + v)

\* _log_prob_of_w2_given_w1: log2((c_w2_then_w1 + 1) / (c_w1 + v))
LogProbOfW2GivenW1(m, words) ==
    LET w2 == words[1]
        w1 == words[2]
        c_w2_then_w1 == DictGet(m.bigram_cnt, <<w2, w1>>, 0)
        c_w1 == DictGet(m.unigram_cnt, w1, 0)
        v    == m.vocabulary_size
    IN  Log2(c_w2_then_w1 + 1, c_w1 + v)

\* _calc_mle: {key: prob_func(key) for key in counts}, prob_func given by
\* its values on the keys a filtered corpus can hold.
CalcMle(counts, prob_func) == [key \in DOMAIN counts |-> prob_func[key]]

\* LanguageModel.__init__ on the corpus the reader hands over.
LanguageModel(corpus) ==
    LET counts == [corpus          |-> corpus,
                   corpus_size     |-> Len(corpus),
                   unigram_cnt     |-> GatherUnigramRawCount(corpus),
                   bigram_cnt      |-> GatherBigramRawCount(corpus),
                   vocabulary_size |-> Cardinality(KNOWN_CHARACTERS)]
    IN  [corpus          |-> counts.corpus,
         corpus_size     |-> counts.corpus_size,
         unigram_cnt     |-> counts.unigram_cnt,
         bigram_cnt      |-> counts.bigram_cnt,
         vocabulary_size |-> counts.vocabulary_size,
         mle_unigram     |-> CalcMle(counts.unigram_cnt,
                                     [w \in KNOWN_CHARACTERS |->
                                        LogProbOfW(counts, w)]),
         mle_bigram      |-> CalcMle(counts.bigram_cnt,
                                     [ws \in KNOWN_CHARACTERS \X KNOWN_CHARACTERS
                                        |-> LogProbOfW2GivenW1(counts, ws)])]

GetMleUnigram(m, w) == DictGet(m.mle_unigram, w, LogProbOfW(m, w))

GetMleBigram(m, words) ==
    DictGet(m.mle_bigram, words, LogProbOfW2GivenW1(m, <<words[1], words[2]>>))

(***************************************************************************)
(* Permutation                                                             *)
(***************************************************************************)
\* Address of the class attribute Permutation._DEFAULT_PERM.
DefaultPermAddr == 0

\* {i: i for i in KNOWN_CHARACTERS}
DefaultPerm == [i \in KNOWN_CHARACTERS |-> i]

\* None, also the value of a local not yet assigned: no address, no
\* identity and no sign.
None == -2

\* self._perm = perm if perm is not None else Permutation._DEFAULT_PERM
PermRef(perm) == IF perm # None THEN perm ELSE DefaultPermAddr

\* Swap as two assignments in sequence: the second reads the first's result.
SwapSequential(perm, key1, key2) ==
    [k \in DOMAIN perm |-> IF k = key1 \/ k = key2 THEN perm[key2] ELSE perm[k]]

\* Swap exchanging the two characters as images instead of as keys.
SwapByValue(perm, key1, key2) ==
    [k \in DOMAIN perm |->
        IF perm[k] = key1 THEN key2
        ELSE IF perm[k] = key2 THEN key1
        ELSE perm[k]]

\* Swap writing each key's own image back.
SwapNothing(perm, key1, key2) ==
    [k \in DOMAIN perm |->
        IF k = key2 THEN perm[key2]
        ELSE IF k = key1 THEN perm[key1]
        ELSE perm[k]]

\* new_perm.update({key1: new_perm[key2], key2: new_perm[key1]}); both
\* values are read before the update, and with key1 = key2 the later
\* entry of the literal is the one kept.
Swap(perm, key1, key2) ==
    [k \in DOMAIN perm |->
        IF k = key2 THEN perm[key1]
        ELSE IF k = key1 THEN perm[key2]
        ELSE perm[k]]

\* new_perm = self._perm, without the copy.
AliasAddr(src, fresh) == src

\* new_perm = self._perm.copy(): the dict _swap fills is a new object.
CopyAddr(src, fresh) == fresh

\* "".join([self._perm.get(c, c) for c in string])
Translate(perm, string) ==
    [i \in 1..Len(string) |-> DictGet(perm, string[i], string[i])]

RECURSIVE EnergyLoop(_, _, _, _)
EnergyLoop(dec_message, i, energy, lang_module) ==
    IF i > Len(dec_message) THEN energy
    ELSE EnergyLoop(dec_message, i + 1,
                    LogSub(energy,
                           GetMleBigram(lang_module,
                                        <<dec_message[i], dec_message[i - 1]>>)),
                    lang_module)

\* get_energy of a Permutation whose mapping is perm (enc_message not empty).
GetEnergy(perm, enc_message, lang_module) ==
    LET dec_message == Translate(perm, enc_message)
    IN  EnergyLoop(dec_message, 2,
                   LogNeg(GetMleUnigram(lang_module, dec_message[1])),
                   lang_module)

(***************************************************************************)
(* SimulatedAnnealing                                                      *)
(***************************************************************************)

\* GetDelta with the operands exchanged.
GetDeltaReversed(old_perm, new_perm, msg, lang_model) ==
    LogSub(GetEnergy(old_perm, msg, lang_model),
           GetEnergy(new_perm, msg, lang_model))

\* new_perm.get_energy(msg, lang_model) - old_perm.get_energy(msg, lang_model)
GetDelta(old_perm, new_perm, msg, lang_model) ==
    LogSub(GetEnergy(new_perm, msg, lang_model),
           GetEnergy(old_perm, msg, lang_model))

\* The signs the float delta can have.  The two energies are float sums of
\* rounded logarithms: the sign is the exact one when the exact energies
\* differ, 0 when the two decoded strings are the same (the same sum is
\* computed twice), and decided by rounding when different strings have
\* equal exact energy.
DeltaSigns(old_perm, new_perm, msg, lang_model) ==
    LET s == LogSign(GetDelta(old_perm, new_perm, msg, lang_model))
    IN  IF s # 0 THEN {s}
        ELSE IF Translate(old_perm, msg) = Translate(new_perm, msg) THEN {0}
        ELSE {-1, 0, 1}

\* math.exp(x) by the sign of x: exactly 1, strictly between 0 and 1, or
\* above 1.
Exp(sign) ==
    IF sign = 0 THEN "one" ELSE IF sign < 0 THEN "below_one" ELSE "above_one"

\* p = 1 if delta < 0 else math.exp(-(delta / t)), t > 0.
AcceptanceProbability(delta) == IF delta < 0 THEN "one" ELSE Exp(-delta)

\* r < p for r = k / RDen in [0, 1).  Every draw is below a p of 1 or more;
\* against a p strictly below 1 (it may underflow to 0.0) the draw is below
\* p or not (lt) as the two values decide.
RandomLess(k, p, lt) ==
    IF p = "below_one" THEN lt ELSE k < RDen

\* Choose with the two results exchanged.
ChooseExchanged(old_perm, new_perm, p, r, lt) ==
    IF RandomLess(r, p, lt) THEN old_perm ELSE new_perm

\* _choose: new_perm if r < p else old_perm
Choose(old_perm, new_perm, p, r, lt) ==
    IF RandomLess(r, p, lt) THEN new_perm ELSE old_perm

\* Cool applying the rate twice.
CoolTwice(t, cool_rate) == FloatMul(FloatMul(t, cool_rate), cool_rate)

\* t = t * self._cool_rate
Cool(t, cool_rate) == FloatMul(t, cool_rate)

\* while t > self._threshold
Hot(t, threshold) == FloatGt(t, threshold)

\* SimulatedAnnealing(init_temp, threshold, cool_rate)
SimulatedAnnealing(init_temp, threshold, cool_rate) ==
    [init_temp |-> init_temp, threshold |-> threshold, cool_rate |-> cool_rate]

(***************************************************************************)
(* State.                                                                  *)
(*   lm, enc_msg, sa      the trained LanguageModel, the encrypted message *)
(*                        and the SimulatedAnnealing object main builds    *)
(*   dicts                the live dict objects, by address                *)
(*   perms                the live Permutation objects, by identity: the   *)
(*                        address _perm refers to, and _swapped            *)
(*   initial_hypothesis   main's Permutation()                             *)
(*   h, new_h, t, delta   the locals of SimulatedAnnealing.run (delta by   *)
(*                        its sign)                                        *)
(*   pc                   "loop" in run, "done" after its return, "raised" *)
(*                        after an exception, "idle" when nothing runs     *)
(*   extras               Permutations the environment constructed         *)
(*   query                the last language-model query and its result     *)
(*   iters, uphill        history: loop bodies executed, and whether a     *)
(*                        neighbour with delta > 0 was ever accepted       *)
(***************************************************************************)
VARIABLES lm, enc_msg, sa, dicts, perms, initial_hypothesis, h, new_h, t,
          delta, pc, extras, query, iters, uphill

vars == <<lm, enc_msg, sa, dicts, perms, initial_hypothesis, h, new_h, t,
          delta, pc, extras, query, iters, uphill>>

\* The least address of lo.. that is not in use.
Fresh(used, lo) ==
    CHOOSE a \in lo..(lo + Cardinality(used)) :
        a \notin used /\ \A b \in lo..(a - 1) : b \in used

\* The mapping a live Permutation refers to.
Mapping(x) == dicts[perms[x].perm]

\* Objects no reference reaches are freed.
Restrict(f, keep) == [x \in DOMAIN f \cap keep |-> f[x]]

\* SimulatedAnnealing(2, 0.5, 0.5): two iterations.
SearchParams ==
    SimulatedAnnealing(Float(128, 0, 0, 0, -51), Float(128, 0, 0, 0, -53),
                       Float(128, 0, 0, 0, -53))

\* SimulatedAnnealing(10, 0.1, 0.95)
Params90 ==
    SimulatedAnnealing(Float(160, 0, 0, 0, -49),
                       Float(204, 26214, 13107, 6554, -56),
                       Float(243, 6553, 19660, 26214, -53))

\* SimulatedAnnealing(3, 0.8999999999999999, 0.3): 3 * 0.3 is above the
\* threshold, and rounds to it.
ParamsRounded ==
    SimulatedAnnealing(Float(192, 0, 0, 0, -51),
                       Float(230, 13107, 6553, 19660, -53),
                       Float(153, 19660, 26214, 13107, -54))

\* SimulatedAnnealing(4, 1, 0.5)
ParamsHalf ==
    SimulatedAnnealing(Float(128, 0, 0, 0, -50), Float(128, 0, 0, 0, -52),
                       Float(128, 0, 0, 0, -53))

CoolParams == {Params90, ParamsRounded, ParamsHalf}

\* main() up to the first test of run's loop condition: the model is
\* trained on corpus, initial_hypothesis = Permutation(perm) with perm an
\* address or None, and run has bound h and t.
MainState(corpus, msg, annealing, perm) ==
    /\ lm = LanguageModel(corpus)
    /\ enc_msg = msg
    /\ sa = annealing
    /\ perms = (1 :> [perm |-> PermRef(perm), swapped |-> <<>>])
    /\ initial_hypothesis = 1
    /\ h = 1
    /\ new_h = None
    /\ t = annealing.init_temp
    /\ delta = None
    /\ extras = {}
    /\ query = [kind |-> "none", words |-> <<>>, value |-> Log2(1, 1)]
    /\ iters = 0
    /\ uphill = FALSE

Init ==
    /\ \E corpus \in Seqs(KNOWN_CHARACTERS, MaxCorpus),
          msg \in Seqs(KNOWN_CHARACTERS \cup {OutChar}, MaxMsg) :
            MainState(corpus, msg, SearchParams, None)
    /\ dicts = (DefaultPermAddr :> DefaultPerm)
    /\ pc = "loop"

\* One execution of the body of run's while loop: the random draws are the
\* two keys, r = k / RDen and, where the value of p decides, lt.
Iterate ==
    /\ pc = "loop"
    /\ Hot(t, sa.threshold)
    /\ UNCHANGED <<lm, enc_msg, sa, initial_hypothesis, extras, query>>
    /\ IF enc_msg = <<>>
       THEN \* dec_message[0] raises IndexError in _get_delta
            /\ pc' = "raised"
            /\ UNCHANGED <<t, iters>>
       ELSE /\ pc' = "loop"
            /\ t' = Cool(t, sa.cool_rate)
            /\ iters' = iters + 1
    /\ \E key1 \in DOMAIN Mapping(h), key2 \in DOMAIN Mapping(h) :
        LET new_perm == CopyAddr(perms[h].perm, Fresh(DOMAIN dicts, 0))
            dicts1   == (new_perm :> Swap(Mapping(h), key1, key2)) @@ dicts
            created  == Fresh(DOMAIN perms, 1)
            perms1   == (created :> [perm    |-> PermRef(new_perm),
                                     swapped |-> <<key1, key2>>]) @@ perms
            Collect(live) ==
                /\ perms' = Restrict(perms1, live)
                /\ dicts' = Restrict(dicts1, {DefaultPermAddr}
                                \cup {perms1[x].perm : x \in live})
        IN  /\ new_h' = created
            /\ IF enc_msg = <<>>
               THEN /\ Collect({initial_hypothesis, h, created} \cup extras)
                    /\ UNCHANGED <<h, delta, uphill>>
               ELSE \E d \in DeltaSigns(dicts1[perms1[h].perm],
                                        dicts1[perms1[created].perm],
                                        enc_msg, lm),
                       r \in 0..(RDen - 1), lt \in BOOLEAN :
                      LET p      == AcceptanceProbability(d)
                          chosen == Choose(h, created, p, r, lt)
                      IN  /\ delta' = d
                          /\ h' = chosen
                          /\ uphill' = (uphill \/ (chosen = created /\ d > 0))
                          /\ Collect({initial_hypothesis, chosen, created}
                                     \cup extras)

\* The loop condition fails: run returns h.
Return ==
    /\ pc = "loop"
    /\ ~Hot(t, sa.threshold)
    /\ pc' = "done"
    /\ UNCHANGED <<lm, enc_msg, sa, dicts, perms, initial_hypothesis, h, new_h,
                   t, delta, extras, query, iters, uphill>>

\* After the run the environment constructs a Permutation with no argument.
NewPermutation ==
    /\ pc = "done"
    /\ Cardinality(extras) < MaxExtra
    /\ LET created == Fresh(DOMAIN perms, 1)
       IN  /\ perms' = (created :> [perm |-> PermRef(None), swapped |-> <<>>])
                       @@ perms
           /\ extras' = extras \cup {created}
    /\ UNCHANGED <<lm, enc_msg, sa, dicts, initial_hypothesis, h, new_h, t,
                   delta, pc, query, iters, uphill>>

NextRun == Iterate \/ Return

Next == NextRun \/ NewPermutation

Spec == Init /\ [][Next]_vars

\* The cooling schedules: run(Permutation({1: 1, 2: 2}), "1", model of "1")
\* for every parameter set of CoolParams.
TwoKeyPermAddr == DefaultPermAddr + 1

InitCool ==
    /\ \E annealing \in CoolParams :
            MainState(<<1>>, <<1>>, annealing, TwoKeyPermAddr)
    /\ dicts = (DefaultPermAddr :> DefaultPerm)
               @@ (TwoKeyPermAddr :> [i \in {1, 2} |-> i])
    /\ pc = "loop"

SpecCool == InitCool /\ [][NextRun]_vars

\* The language model alone: every corpus, queried for every character
\* and pair.
InitLM ==
    /\ \E corpus \in Seqs(KNOWN_CHARACTERS, MaxCorpusLM) :
            MainState(corpus, <<>>, SearchParams, None)
    /\ dicts = (DefaultPermAddr :> DefaultPerm)
    /\ pc = "idle"

QueryUnigram ==
    /\ pc = "idle"
    /\ \E w \in KNOWN_CHARACTERS \cup {OutChar} :
        query' = [kind |-> "unigram", words |-> <<w>>,
                  value |-> GetMleUnigram(lm, w)]
    /\ UNCHANGED <<lm, enc_msg, sa, dicts, perms, initial_hypothesis, h, new_h,
                   t, delta, pc, extras, iters, uphill>>

QueryBigram ==
    /\ pc = "idle"
    /\ \E w2 \in KNOWN_CHARACTERS \cup {OutChar},
          w1 \in KNOWN_CHARACTERS \cup {OutChar} :
        query' = [kind |-> "bigram", words |-> <<w2, w1>>,
                  value |-> GetMleBigram(lm, <<w2, w1>>)]
    /\ UNCHANGED <<lm, enc_msg, sa, dicts, perms, initial_hypothesis, h, new_h,
                   t, delta, pc, extras, iters, uphill>>

NextLM == QueryUnigram \/ QueryBigram

SpecLM == InitLM /\ [][NextLM]_vars

(***************************************************************************)
(* Properties.                                                             *)
(***************************************************************************)
IsBijection(m) ==
    /\ DOMAIN m = KNOWN_CHARACTERS
    /\ \A c \in KNOWN_CHARACTERS : Cardinality({k \in DOMAIN m : m[k] = c}) = 1

Bijections == {m \in [KNOWN_CHARACTERS -> KNOWN_CHARACTERS] : IsBijection(m)}

\* Occurrences of w in corpus, and of a directly after b.
Count(corpus, w) == Cardinality({i \in 1..Len(corpus) : corpus[i] = w})

PairCount(corpus, a, b) ==
    Cardinality({i \in 2..Len(corpus) : corpus[i] = a /\ corpus[i - 1] = b})

\* energy(a) <= energy(b) on the encrypted message, exactly.
EnergyLeq(a, b) ==
    LogSign(LogSub(GetEnergy(a, enc_msg, lm), GetEnergy(b, enc_msg, lm))) <= 0

\* The mappings n or fewer swaps lead to from those of S.
RECURSIVE ReachWithin(_, _)
ReachWithin(S, n) ==
    IF n = 0 THEN S
    ELSE ReachWithin(S \cup {Swap(m, key1, key2) :
                                m \in S, key1 \in KNOWN_CHARACTERS,
                                key2 \in KNOWN_CHARACTERS}, n - 1)

\* Loop bodies run executes, cooling in float arithmetic.
RECURSIVE FloatStepsFrom(_, _)
FloatStepsFrom(temp, annealing) ==
    IF Hot(temp, annealing.threshold)
    THEN 1 + FloatStepsFrom(Cool(temp, annealing.cool_rate), annealing)
    ELSE 0

FloatSteps(annealing) == FloatStepsFrom(annealing.init_temp, annealing)

\* The least n with init_temp * cool_rate^n <= threshold, in exact
\* arithmetic on the values of the three floats.
RECURSIVE ExactStepsFrom(_, _)
ExactStepsFrom(x, annealing) ==
    IF DyCmp(x, annealing.threshold) > 0
    THEN 1 + ExactStepsFrom(DyMul(x, annealing.cool_rate), annealing)
    ELSE 0

ExactSteps(annealing) == ExactStepsFrom(annealing.init_temp, annealing)

\* Whether no product of the schedule is rounded.
RECURSIVE ExactProductsFrom(_, _)
ExactProductsFrom(temp, annealing) ==
    IF Hot(temp, annealing.threshold)
    THEN /\ DyCmp(FloatMul(temp, annealing.cool_rate),
                  DyMul(temp, annealing.cool_rate)) = 0
         /\ ExactProductsFrom(FloatMul(temp, annealing.cool_rate), annealing)
    ELSE TRUE

ExactProducts(annealing) == ExactProductsFrom(annealing.init_temp, annealing)

\* C1: every Permutation that get_neighbor calls lead to from the identity
\* has a bijection on the alphabet as its mapping: the key set is the
\* alphabet and every character is the image of exactly one key.
C1_NeighborsAreBijections == \A x \in DOMAIN perms : IsBijection(Mapping(x))

\* Two get_neighbor calls were made; the one accepted first changed the
\* mapping, the last drew distinct keys.
C1_Witness ==
    /\ iters = 2
    /\ h # new_h
    /\ perms[h].swapped # <<>>
    /\ Mapping(h) # DefaultPerm
    /\ perms[new_h].swapped[1] # perms[new_h].swapped[2]

C3_ExactIterations == pc = "done" => iters = ExactSteps(sa)

\* C3 (amended): run returns after exactly n loop bodies, n the least
\* integer for which n successive float multiplications of the temperature
\* by cool_rate give a value <= threshold, whichever moves were accepted;
\* that is the least n with init_temp * cool_rate^n <= threshold when no
\* product is rounded, and it is 90 for (10, 0.1, 0.95).
C3_FloatIterations ==
    /\ sa = Params90 => iters <= 90
    /\ pc = "done" =>
        /\ iters = FloatSteps(sa)
        /\ sa = Params90 => iters = 90
        /\ ExactProducts(sa) => iters = ExactSteps(sa)

\* run with (10, 0.1, 0.95) returned, having accepted an uphill move and
\* rejected the last neighbour.
C3_Witness ==
    /\ pc = "done"
    /\ sa = Params90
    /\ iters = 90
    /\ uphill
    /\ h # new_h

\* C4: in every iteration whose neighbour has strictly lower energy, delta
\* is negative, and whenever delta is negative the neighbour becomes the
\* current hypothesis, whatever value r was drawn.
C4_DownhillAlwaysAccepted ==
    [][iters' = iters + 1 =>
        /\ ~EnergyLeq(Mapping(h), dicts'[perms'[new_h'].perm]) => delta' < 0
        /\ delta' < 0 => h' = new_h']_vars

\* An iteration with negative delta has made its neighbour current.
C4_Witness ==
    /\ iters >= 1
    /\ delta < 0
    /\ h = new_h
    /\ Mapping(h) # DefaultPerm

\* C5 (as claimed): an iteration that swaps two keys whose images do not
\* appear in the encrypted message leaves its translation unchanged, and
\* delta is 0.
C5_ImagesNotInMessage ==
    [][(/\ iters' = iters + 1
        /\ Mapping(h)[perms'[new_h'].swapped[1]] \notin Chars(enc_msg)
        /\ Mapping(h)[perms'[new_h'].swapped[2]] \notin Chars(enc_msg))
       => /\ Translate(dicts'[perms'[new_h'].perm], enc_msg)
                = Translate(Mapping(h), enc_msg)
          /\ delta' = 0]_vars

\* C5 (amended): an iteration that swaps two keys that do not themselves
\* appear in the encrypted message leaves its translation unchanged, and
\* delta is 0.
C5_KeysNotInMessage ==
    [][(/\ iters' = iters + 1
        /\ perms'[new_h'].swapped[1] \notin Chars(enc_msg)
        /\ perms'[new_h'].swapped[2] \notin Chars(enc_msg))
       => /\ Translate(dicts'[perms'[new_h'].perm], enc_msg)
                = Translate(Mapping(h), enc_msg)
          /\ delta' = 0]_vars

\* The last iteration swapped two distinct keys, neither in the non-empty
\* encrypted message, in a mapping that was no longer the identity.
C5_Witness ==
    /\ iters = 2
    /\ enc_msg # <<>>
    /\ perms[new_h].swapped[1] # perms[new_h].swapped[2]
    /\ perms[new_h].swapped[1] \notin Chars(enc_msg)
    /\ perms[new_h].swapped[2] \notin Chars(enc_msg)
    /\ delta = 0
    /\ Translate(Mapping(new_h), enc_msg) # enc_msg

\* C6: the value of every unigram and bigram query, seen or unseen, on any
\* corpus, is log2 of (count + 1) / (corpus_size + vocabulary_size), resp.
\* (pair count + 1) / (count of the previous character + vocabulary_size),
\* with 1 <= numerator <= denominator: finite and at most 0.
C6_SmoothedProbabilities ==
    /\ query.kind = "unigram" =>
        /\ query.value.num = Count(lm.corpus, query.words[1]) + 1
        /\ query.value.den = Len(lm.corpus) + Cardinality(KNOWN_CHARACTERS)
    /\ query.kind = "bigram" =>
        /\ query.value.num
             = PairCount(lm.corpus, query.words[1], query.words[2]) + 1
        /\ query.value.den
             = Count(lm.corpus, query.words[2]) + Cardinality(KNOWN_CHARACTERS)
    /\ query.kind # "none" =>
        /\ 1 <= query.value.num
        /\ query.value.num <= query.value.den
        /\ LogSign(query.value) <= 0

\* A pair seen twice in the corpus was queried.
C6_Witness ==
    /\ query.kind = "bigram"
    /\ PairCount(lm.corpus, query.words[1], query.words[2]) = 2
    /\ query.value.num = 3

\* C7: the count trained for the key (a, b) is the number of positions
\* where a directly follows b (0 for pairs never adjacent in that order),
\* and a bigram query (a, b) and the energy of the two-character message
\* "ba" are computed from the count of that same key.
C7_ReverseAdjacency ==
    /\ \A a \in KNOWN_CHARACTERS \cup {OutChar},
          b \in KNOWN_CHARACTERS \cup {OutChar} :
        /\ DictGet(lm.bigram_cnt, <<a, b>>, 0) = PairCount(lm.corpus, a, b)
        /\ GetEnergy(DefaultPerm, <<b, a>>, lm)
             = LogSub(LogNeg(Log2(Count(lm.corpus, b) + 1,
                                  Len(lm.corpus) + NChars)),
                      Log2(PairCount(lm.corpus, a, b) + 1,
                           Count(lm.corpus, b) + NChars))
    /\ lm.corpus = <<1, 2>> =>
        /\ DictGet(lm.bigram_cnt, <<2, 1>>, 0) = 1
        /\ DictGet(lm.bigram_cnt, <<1, 2>>, 0) = 0
    /\ query.kind = "bigram" =>
        query.value.num
            = PairCount(lm.corpus, query.words[1], query.words[2]) + 1

\* Trained on "ab", the model was queried for the pair ('b', 'a').
C7_Witness ==
    /\ lm.corpus = <<1, 2>>
    /\ query.kind = "bigram"
    /\ query.words = <<2, 1>>
    /\ query.value = Log2(2, 1 + NChars)

\* C8: no step changes the contents of a dict that exists before and after
\* it, or the dict a Permutation refers to; the class-wide default mapping
\* stays the identity.
C8_MappingsNeverEdited ==
    [][/\ \A a \in DOMAIN dicts \cap DOMAIN dicts' : dicts'[a] = dicts[a]
       /\ \A x \in DOMAIN perms \cap DOMAIN perms' : perms'[x] = perms[x]
       /\ dicts'[DefaultPermAddr] = DefaultPerm]_vars

\* After two iterations that left a hypothesis other than the identity, a
\* Permutation constructed with no argument is the identity.
C8_Witness ==
    /\ iters = 2
    /\ Mapping(h) # DefaultPerm
    /\ \E x \in extras : Mapping(x) = DefaultPerm

\* C9 (as claimed): no two distinct Permutation objects refer to the same
\* mapping object.
C9_OwnMapping ==
    \A x \in DOMAIN perms, y \in DOMAIN perms :
        x # y => perms[x].perm # perms[y].perm

\* C10: from the mapping of every live Permutation, the identity one
\* included, every bijection of the alphabet is the result of some sequence
\* of at most NChars - 1 swaps.
C10_EveryBijectionReachable ==
    \A x \in DOMAIN perms :
        Bijections \subseteq ReachWithin({Mapping(x)}, NChars - 1)

\* Two accepted neighbours have made the current mapping the cycle that
\* moves every character.
C10_Witness ==
    /\ iters = 2
    /\ Mapping(h) = [k \in KNOWN_CHARACTERS |-> (k % NChars) + 1]

=============================================================================
